---- MODULE Spec2Model ----
(***************************************************************************)
(* NYC Crime Risk Analyzer: the feature encoder and category mapper of     *)
(* app/service.py and the map-click / prediction-form script of            *)
(* app/main.py.                                                            *)
(*                                                                         *)
(* Python values are modelled as follows: None is the empty tuple and an   *)
(* optional value v is <<v>>; floats are integers (coordinates are grid    *)
(* units); a dict is a function on strings; a DataFrame is a record of its *)
(* column names and its single row of values.                              *)
(***************************************************************************)
EXTENDS Integers, Sequences, FiniteSets, TLC

VARIABLES
    selected_location,  \* st.session_state.selected_location
    last_clicked,       \* map_data['last_clicked'] of the folium widget
    lookup,             \* what the last get_precinct_and_borough call returned
    run,                \* what the last script run of main.py did
    label_encoders,     \* the unpickled label_encoders artifact
    query,              \* the arguments of the last create_df call
    data_dict,          \* create_df's data_dict
    encoded_features,   \* create_df's encoded_features
    df,                 \* create_df's DataFrame before scaling
    X,                  \* create_df's return value (df_scaled)
    prediction,         \* what predict returned
    raised,             \* an exception escaped create_df or predict
    pc                  \* position of the service caller

vars == <<selected_location, last_clicked, lookup, run, label_encoders, query,
          data_dict, encoded_features, df, X, prediction, raised, pc>>

None == <<>>

Some(v) == <<v>>

\* Python truthiness of an optional number and of an optional string
TruthyNum(opt) == opt # None /\ opt[1] # 0

TruthyStr(opt) == opt # None /\ opt[1] # ""

----------------------------------------------------------------------------
(* Bounds *)

MaxLat == 2         \* clicks land on the grid 0..MaxLat x 0..MaxLng
MaxLng == 1
MaxHour == 25       \* hours passed to create_df range over 0..MaxHour
MaxDay == 7         \* days of each month of 2024 passed to create_df
MaxAge == 120       \* ages passed to create_df range over 0..MaxAge

----------------------------------------------------------------------------
(* datetime.date: strftime('%A') *)

IsLeap(y) == (y % 4 = 0) /\ ((y % 100 # 0) \/ (y % 400 = 0))

DaysInMonth(y, m) ==
    IF m = 2 THEN (IF IsLeap(y) THEN 29 ELSE 28)
    ELSE IF m \in {4, 6, 9, 11} THEN 30 ELSE 31

RECURSIVE DaysBeforeMonth(_, _)
DaysBeforeMonth(y, m) ==
    IF m = 1 THEN 0 ELSE DaysBeforeMonth(y, m - 1) + DaysInMonth(y, m - 1)

ToOrdinal(date) ==
    LET y == date.year - 1
    IN  y * 365 + (y \div 4) - (y \div 100) + (y \div 400)
        + DaysBeforeMonth(date.year, date.month) + date.day

DayNames == <<"Monday", "Tuesday", "Wednesday", "Thursday", "Friday",
              "Saturday", "Sunday">>

weekday(date) == DayNames[((ToOrdinal(date) + 6) % 7) + 1]

----------------------------------------------------------------------------
(* str.upper on the strings the program handles *)

Upper(s) ==
    CASE s = "Manhattan" -> "MANHATTAN"
      [] s = "Bronx" -> "BRONX"
      [] s = "Queens" -> "QUEENS"
      [] s = "Brooklyn" -> "BROOKLYN"
      [] s = "Staten Island" -> "STATEN ISLAND"
      [] s = "White" -> "WHITE"
      [] s = "Martian" -> "MARTIAN"
      [] OTHER -> s

----------------------------------------------------------------------------
(* service.create_df: derived features *)

HourOfInclusive(hour) == IF hour <= 24 THEN hour ELSE 0

hour_of(hour) == IF hour < 24 THEN hour ELSE 0

ADDR_PCT_CD(precinct) == IF TruthyNum(precinct) THEN precinct[1] ELSE 0

JURISDICTION_CODE == 0

boro(borough) == IF TruthyStr(borough) THEN Upper(borough[1]) ELSE "UNKNOWN"

PlaceMapTypo(place) ==
    IF place = "In park"
    THEN [PREM_TYP_DESC |-> "PARK/PLAYGROUND", OCCURENCE |-> "INSIDE"]
    ELSE IF place = "In public housing"
    THEN [PREM_TYP_DESC |-> "RESIDENCE - PUBLIC HOUSING", OCCURENCE |-> "INSIDE"]
    ELSE IF place = "In Station"
    THEN [PREM_TYP_DESC |-> "TRANSIT - NYC SUBWAY", OCCURENCE |-> "INSIDE"]
    ELSE [PREM_TYP_DESC |-> "STREET", OCCURENCE |-> "FRONT OF"]

PlaceMap(place) ==
    IF place = "In park"
    THEN [PREM_TYP_DESC |-> "PARK/PLAYGROUND", OCCURENCE |-> "INSIDE"]
    ELSE IF place = "In public housing"
    THEN [PREM_TYP_DESC |-> "RESIDENCE - PUBLIC HOUSING", OCCURENCE |-> "INSIDE"]
    ELSE IF place = "In station"
    THEN [PREM_TYP_DESC |-> "TRANSIT - NYC SUBWAY", OCCURENCE |-> "INSIDE"]
    ELSE [PREM_TYP_DESC |-> "STREET", OCCURENCE |-> "FRONT OF"]

AgeGroupOffByOne(age) ==
    IF age <= 18 THEN "<18"
    ELSE IF 18 <= age /\ age <= 24 THEN "18-24"
    ELSE IF 25 <= age /\ age <= 44 THEN "25-44"
    ELSE IF 45 <= age /\ age <= 64 THEN "45-64"
    ELSE "65+"

VIC_AGE_GROUP(age) ==
    IF age < 18 THEN "<18"
    ELSE IF 18 <= age /\ age <= 24 THEN "18-24"
    ELSE IF 25 <= age /\ age <= 44 THEN "25-44"
    ELSE IF 45 <= age /\ age <= 64 THEN "45-64"
    ELSE "65+"

VIC_SEX(gender) == IF gender = "Male" THEN "M" ELSE "F"

VIC_RACE(race) == Upper(race)

is_weekend(wd) == IF wd \in {"Saturday", "Sunday"} THEN 1 ELSE 0

NightExclusive(hour) == IF hour > 20 \/ hour < 6 THEN 1 ELSE 0

is_night(hour) == IF hour >= 20 \/ hour <= 6 THEN 1 ELSE 0

is_rush_hour(hour) == IF hour \in {7, 8, 9, 17, 18, 19} THEN 1 ELSE 0

SeasonShifted(month) ==
    IF month \in {1, 2, 3} THEN "Winter"
    ELSE IF month \in {4, 5, 6} THEN "Spring"
    ELSE IF month \in {7, 8, 9} THEN "Summer"
    ELSE "Fall"

season(month) ==
    IF month \in {12, 1, 2} THEN "Winter"
    ELSE IF month \in {3, 4, 5} THEN "Spring"
    ELSE IF month \in {6, 7, 8} THEN "Summer"
    ELSE "Fall"

COMPLETED == "COMPLETED"
CRIME_CLASS == "FELONY"
JURIS_DESC == "N.Y. POLICE DEPT"
SUSP_AGE_GROUP == "UNKNOWN"
SUSP_RACE == "UNKNOWN"
SUSP_SEX == "(null)"

location_crime_density == 100

\* data_dict of create_df; JURIS_DESC is computed but is not one of its keys
DataDict(q) ==
    LET h == hour_of(q.hour)
        wd == weekday(q.date)
        pl == PlaceMap(q.place)
    IN  [year |-> q.date.year,
         month |-> q.date.month,
         day |-> q.date.day,
         hour |-> h,
         Latitude |-> q.latitude,
         Longitude |-> q.longitude,
         ADDR_PCT_CD |-> ADDR_PCT_CD(q.precinct),
         JURISDICTION_CODE |-> JURISDICTION_CODE,
         weekday |-> wd,
         COMPLETED |-> COMPLETED,
         CRIME_CLASS |-> CRIME_CLASS,
         BORO_NM |-> boro(q.borough),
         PREM_TYP_DESC |-> pl.PREM_TYP_DESC,
         OCCURENCE |-> pl.OCCURENCE,
         SUSP_AGE_GROUP |-> SUSP_AGE_GROUP,
         SUSP_RACE |-> SUSP_RACE,
         SUSP_SEX |-> SUSP_SEX,
         VIC_AGE_GROUP |-> VIC_AGE_GROUP(q.age),
         VIC_RACE |-> VIC_RACE(q.race),
         VIC_SEX |-> VIC_SEX(q.gender),
         season |-> season(q.date.month),
         is_weekend |-> is_weekend(wd),
         is_night |-> is_night(h),
         is_rush_hour |-> is_rush_hour(h),
         location_crime_density |-> location_crime_density]

----------------------------------------------------------------------------
(* The pickled artifacts: label encoders (sklearn LabelEncoder: classes_ is *)
(* sorted, transform gives the position in it and raises on an unseen      *)
(* label) and the scaler (StandardScaler fitted on 25 features).           *)

CrimeCategories == <<"DRUGS/ALCOHOL", "PERSONAL", "PROPERTY", "SEXUAL">>

TrainedEncoders ==
    [weekday |-> <<"Friday", "Monday", "Saturday", "Sunday", "Thursday",
                   "Tuesday", "Wednesday">>,
     COMPLETED |-> <<"ATTEMPTED", "COMPLETED">>,
     CRIME_CLASS |-> <<"FELONY", "MISDEMEANOR", "VIOLATION">>,
     BORO_NM |-> <<"BRONX", "BROOKLYN", "MANHATTAN", "QUEENS",
                   "STATEN ISLAND", "UNKNOWN">>,
     PREM_TYP_DESC |-> <<"PARK/PLAYGROUND", "RESIDENCE - PUBLIC HOUSING",
                         "STREET", "TRANSIT - NYC SUBWAY">>,
     OCCURENCE |-> <<"FRONT OF", "INSIDE">>,
     JURIS_DESC |-> <<"N.Y. HOUSING POLICE", "N.Y. POLICE DEPT">>,
     SUSP_AGE_GROUP |-> <<"18-24", "25-44", "45-64", "65+", "<18", "UNKNOWN">>,
     SUSP_RACE |-> <<"BLACK", "UNKNOWN", "WHITE">>,
     SUSP_SEX |-> <<"(null)", "F", "M", "U">>,
     VIC_AGE_GROUP |-> <<"18-24", "25-44", "45-64", "65+", "<18", "UNKNOWN">>,
     VIC_RACE |-> <<"AMERICAN INDIAN/ALASKAN NATIVE",
                    "ASIAN / PACIFIC ISLANDER", "BLACK", "BLACK HISPANIC",
                    "OTHER", "UNKNOWN", "WHITE", "WHITE HISPANIC">>,
     VIC_SEX |-> <<"D", "E", "F", "M">>,
     season |-> <<"Fall", "Spring", "Summer", "Winter">>,
     CRIME_CATEGORY |-> CrimeCategories]

\* An artifact trained on data without some of the labels create_df produces
SparseEncoders ==
    [TrainedEncoders EXCEPT
        !.BORO_NM = <<"BRONX", "BROOKLYN", "MANHATTAN", "QUEENS",
                      "STATEN ISLAND">>,
        !.SUSP_SEX = <<"F", "M", "U">>,
        !.PREM_TYP_DESC = <<"RESIDENCE - PUBLIC HOUSING", "STREET">>,
        !.VIC_AGE_GROUP = <<"18-24", "25-44", "45-64", "UNKNOWN">>,
        !.season = <<"Fall", "Summer", "Winter">>,
        !.CRIME_CATEGORY = <<"DRUGS/ALCOHOL", "OTHER", "PERSONAL", "PROPERTY",
                             "SEXUAL">>]

\* An artifact without an encoder for one of the columns
PartialEncoders ==
    [col \in (DOMAIN TrainedEncoders) \ {"weekday"} |-> TrainedEncoders[col]]

EncoderArtifacts == {TrainedEncoders, SparseEncoders, PartialEncoders}

n_features_in_ == 25

scaler ==
    [mean_ |-> [i \in 1..n_features_in_ |-> i],
     scale_ |-> [i \in 1..n_features_in_ |-> 1 + (i % 3)]]

IndexOf(seq, v) == CHOOSE i \in 1..Len(seq) : seq[i] = v

\* label_encoders[col].transform([v])[0]: the code, or the exception
LabelTransform(encs, col, v) ==
    IF col \notin DOMAIN encs
    THEN [raised |-> TRUE, value |-> 0]
    ELSE IF \A i \in 1..Len(encs[col]) : encs[col][i] # v
    THEN [raised |-> TRUE, value |-> 0]
    ELSE [raised |-> FALSE, value |-> IndexOf(encs[col], v) - 1]

EncodedValueMinusOne(encs, col, v) ==
    LET r == LabelTransform(encs, col, v)
    IN  IF r.raised THEN 0 - 1 ELSE r.value

\* the try/except around the transform
encoded_value(encs, col, v) ==
    LET r == LabelTransform(encs, col, v)
    IN  IF r.raised THEN 0 ELSE r.value

CategoricalColsNoSeason ==
    <<"weekday", "COMPLETED", "CRIME_CLASS", "BORO_NM",
      "PREM_TYP_DESC", "OCCURENCE", "JURIS_DESC",
      "SUSP_AGE_GROUP", "SUSP_RACE", "SUSP_SEX",
      "VIC_AGE_GROUP", "VIC_RACE", "VIC_SEX">>

categorical_cols ==
    <<"weekday", "COMPLETED", "CRIME_CLASS", "BORO_NM",
      "PREM_TYP_DESC", "OCCURENCE", "JURIS_DESC",
      "SUSP_AGE_GROUP", "SUSP_RACE", "SUSP_SEX",
      "VIC_AGE_GROUP", "VIC_RACE", "VIC_SEX", "season">>

\* the loop over categorical_cols, from column i on
RECURSIVE EncodeLoop(_, _, _, _)
EncodeLoop(encs, dd, i, acc) ==
    IF i > Len(categorical_cols) THEN acc
    ELSE LET col == categorical_cols[i]
         IN  IF col \in DOMAIN dd
             THEN EncodeLoop(encs, dd, i + 1,
                     (col \o "_encoded" :> encoded_value(encs, col, dd[col]))
                     @@ acc)
             ELSE EncodeLoop(encs, dd, i + 1, acc)

EmptyDict == [k \in {} |-> 0]

EncodedFeatures(encs, dd) == EncodeLoop(encs, dd, 1, EmptyDict)

FeatureColsSwapped ==
    <<"year", "month", "day", "hour", "Longitude", "Latitude",
      "ADDR_PCT_CD", "JURISDICTION_CODE",
      "weekday_encoded", "COMPLETED_encoded", "CRIME_CLASS_encoded",
      "BORO_NM_encoded", "PREM_TYP_DESC_encoded", "OCCURENCE_encoded",
      "SUSP_AGE_GROUP_encoded", "SUSP_RACE_encoded", "SUSP_SEX_encoded",
      "VIC_AGE_GROUP_encoded", "VIC_RACE_encoded", "VIC_SEX_encoded",
      "season_encoded", "is_weekend", "is_night", "is_rush_hour",
      "location_crime_density">>

feature_cols ==
    <<"year", "month", "day", "hour", "Latitude", "Longitude",
      "ADDR_PCT_CD", "JURISDICTION_CODE",
      "weekday_encoded", "COMPLETED_encoded", "CRIME_CLASS_encoded",
      "BORO_NM_encoded", "PREM_TYP_DESC_encoded", "OCCURENCE_encoded",
      "SUSP_AGE_GROUP_encoded", "SUSP_RACE_encoded", "SUSP_SEX_encoded",
      "VIC_AGE_GROUP_encoded", "VIC_RACE_encoded", "VIC_SEX_encoded",
      "season_encoded", "is_weekend", "is_night", "is_rush_hour",
      "location_crime_density">>

\* the loop that builds final_data
final_data(dd, ef) ==
    [i \in 1..Len(feature_cols) |->
        LET col == feature_cols[i]
        IN  IF col \in DOMAIN dd THEN dd[col]
            ELSE IF col \in DOMAIN ef THEN ef[col]
            ELSE 0]

DataFrame(values, columns) == [columns |-> columns, values |-> values]

\* scaler.transform(df): raises unless df has the fitted number of features
ScalerTransform(frame) ==
    IF Len(frame.values) # n_features_in_
    THEN [raised |-> TRUE, value |-> <<>>]
    ELSE [raised |-> FALSE,
          value |-> [i \in 1..n_features_in_ |->
                        (frame.values[i] - scaler.mean_[i]) \div scaler.scale_[i]]]

\* create_df as a whole: its locals and its result
create_df(encs, q) ==
    LET dd == DataDict(q)
        ef == EncodedFeatures(encs, dd)
        frame == DataFrame(final_data(dd, ef), feature_cols)
        scaled == ScalerTransform(frame)
    IN  [data_dict |-> dd,
         encoded_features |-> ef,
         df |-> frame,
         X |-> scaled.value,
         raised |-> scaled.raised]

----------------------------------------------------------------------------
(* service.predict *)

crime_details ==
    [c \in {"DRUGS/ALCOHOL", "PROPERTY", "PERSONAL", "SEXUAL"} |->
        CASE c = "DRUGS/ALCOHOL" ->
                <<"DANGEROUS DRUGS", "INTOXICATED & IMPAIRED DRIVING",
                  "ALCOHOLIC BEVERAGE CONTROL LAW",
                  "UNDER THE INFLUENCE OF DRUGS",
                  "LOITERING FOR DRUG PURPOSES">>
          [] c = "PROPERTY" ->
                <<"BURGLARY", "PETIT LARCENY", "GRAND LARCENY", "ROBBERY",
                  "THEFT-FRAUD", "GRAND LARCENY OF MOTOR VEHICLE", "FORGERY",
                  "ARSON", "POSSESSION OF STOLEN PROPERTY",
                  "CRIMINAL MISCHIEF & RELATED OF">>
          [] c = "PERSONAL" ->
                <<"ASSAULT 3 & RELATED OFFENSES", "FELONY ASSAULT",
                  "OFFENSES AGAINST THE PERSON",
                  "HOMICIDE-NEGLIGENT,UNCLASSIFIE",
                  "KIDNAPPING & RELATED OFFENSES", "DANGEROUS WEAPONS">>
          [] c = "SEXUAL" ->
                <<"SEX CRIMES", "HARRASSMENT 2", "RAPE",
                  "PROSTITUTION & RELATED OFFENSES", "FELONY SEX CRIMES">>]

CrimesNoDefault(crime_category) ==
    IF crime_category \in DOMAIN crime_details
    THEN crime_details[crime_category]
    ELSE <<>>

\* crime_details.get(crime_category, ['UNKNOWN CRIME TYPE'])
crimes(crime_category) ==
    IF crime_category \in DOMAIN crime_details
    THEN crime_details[crime_category]
    ELSE <<"UNKNOWN CRIME TYPE">>

\* the codes model.predict can return: the classes the model was trained on
PredCodes(encs) == 0..(Len(encs.CRIME_CATEGORY) - 1)

\* predict, given what model.predict(data)[0] returned
predict(encs, pred_encoded) ==
    IF pred_encoded + 1 \notin 1..Len(encs.CRIME_CATEGORY)
    THEN [raised |-> TRUE, crime_category |-> "", crimes |-> <<>>]
    ELSE LET crime_category == encs.CRIME_CATEGORY[pred_encoded + 1]
         IN  [raised |-> FALSE,
              crime_category |-> crime_category,
              crimes |-> crimes(crime_category)]

----------------------------------------------------------------------------
(* main.py: the shapefiles and get_precinct_and_borough.  A point is       *)
(* <<x, y>>; a geometry is the set of points it contains.                  *)

Point(x, y) == <<x, y>>

\* the projection to EPSG:2263
lon_lat_to_utm(lon, lat) == <<lon * 10 + 100, lat * 10 + 200>>

\* the precinct shapefile, in geographic coordinates; two precincts overlap
precinct_gdf ==
    <<[precinct |-> 19, geometry |-> {Point(0, 0), Point(1, 0)}],
      [precinct |-> 40, geometry |-> {Point(1, 0), Point(0, 1)}],
      [precinct |-> 121, geometry |-> {Point(0, 2)}]>>

\* the borough shapefile, in projected coordinates
borough_gdf ==
    <<[BoroName |-> "Manhattan",
       geometry |-> {lon_lat_to_utm(0, 0), lon_lat_to_utm(1, 0)}],
      [BoroName |-> "Bronx", geometry |-> {lon_lat_to_utm(0, 1)}],
      [BoroName |-> "Queens", geometry |-> {lon_lat_to_utm(1, 1)}]>>

contains(geometry, point) == point \in geometry

\* for _, row in precinct_gdf.iterrows(): first containing row, from row i on
RECURSIVE FindPrecinct(_, _)
FindPrecinct(point, i) ==
    IF i > Len(precinct_gdf) THEN None
    ELSE IF contains(precinct_gdf[i].geometry, point)
    THEN Some(precinct_gdf[i].precinct)
    ELSE FindPrecinct(point, i + 1)

RECURSIVE FindBorough(_, _)
FindBorough(point2, i) ==
    IF i > Len(borough_gdf) THEN None
    ELSE IF contains(borough_gdf[i].geometry, point2)
    THEN Some(borough_gdf[i].BoroName)
    ELSE FindBorough(point2, i + 1)

\* readable: gpd.read_file succeeded for both shapefiles
get_precinct_and_borough(lat, lon, readable) ==
    IF ~readable
    THEN [precinct |-> None, borough |-> None]
    ELSE [precinct |-> FindPrecinct(Point(lon, lat), 1),
          borough |-> FindBorough(lon_lat_to_utm(lon, lat), 1)]

ResolvedEither(found) == TruthyStr(found.borough) \/ TruthyNum(found.precinct)

\* if borough and precinct:
Resolved(found) == TruthyStr(found.borough) /\ TruthyNum(found.precinct)

\* the map click handling of one script run: the lookup it made (None when
\* nothing was clicked yet) and the selected location it leaves
HandleClick(clicked, selected, readable) ==
    IF clicked = None
    THEN [lookup |-> None, selected |-> selected]
    ELSE LET lat == clicked[1].lat
             lon == clicked[1].lng
             found == get_precinct_and_borough(lat, lon, readable)
         IN  [lookup |-> Some(found),
              selected |-> IF Resolved(found)
                           THEN Some([lat |-> lat, lon |-> lon,
                                      precinct |-> found.precinct,
                                      borough |-> found.borough])
                           ELSE selected]

----------------------------------------------------------------------------
(* Inputs *)

Clicks == [lat : 0..MaxLat, lng : 0..MaxLng]

\* the widgets of the prediction form
FormGenders == {"Male", "Female"}
FormRaces == {"WHITE"}
FormAges == {25}
FormDates == {[year |-> 2024, month |-> 7, day |-> 15]}
FormHours == {22}
FormPlaces == {"In park"}

Forms == [gender : FormGenders, race : FormRaces, age : FormAges,
          date : FormDates, hour : FormHours, place : FormPlaces]

Query(date, hour, latitude, longitude, place, age, race, gender, precinct, borough) ==
    [date |-> date, hour |-> hour, latitude |-> latitude,
     longitude |-> longitude, place |-> place, age |-> age, race |-> race,
     gender |-> gender, precinct |-> precinct, borough |-> borough]

\* the arguments of direct calls of create_df
Dates == {d \in [year : {2024}, month : 1..12, day : 1..MaxDay] :
            d.day <= DaysInMonth(d.year, d.month)}
Hours == 0..MaxHour
Ages == 0..MaxAge
Places == {"In park", "In public housing", "In station", "On street",
           "At home"}
Callers ==
    {[race |-> "WHITE", gender |-> "Male",
      precinct |-> Some(19), borough |-> Some("Manhattan")],
     [race |-> "White", gender |-> "Female",
      precinct |-> None, borough |-> None],
     [race |-> "Martian", gender |-> "Female",
      precinct |-> Some(40), borough |-> None],
     [race |-> "BLACK", gender |-> "Male",
      precinct |-> None, borough |-> Some("Bronx")]}

BaseDate == [year |-> 2024, month |-> 7, day |-> 15]

BaseCaller == [race |-> "WHITE", gender |-> "Male",
               precinct |-> Some(19), borough |-> Some("Manhattan")]

\* every date and hour, for one caller, place and age
TimeQueries ==
    {Query(d, h, 0, 0, "In park", 30, BaseCaller.race, BaseCaller.gender,
           BaseCaller.precinct, BaseCaller.borough) :
        d \in Dates, h \in Hours}

\* every place, age and caller, at one date and hour
SubjectQueries ==
    {Query(BaseDate, 22, 0, 0, pl, a, c.race, c.gender, c.precinct,
           c.borough) :
        pl \in Places, a \in Ages, c \in Callers}

Queries == TimeQueries \cup SubjectQueries

NoFrame == DataFrame(<<>>, <<>>)

----------------------------------------------------------------------------
(* The Streamlit script main.py: every action is one run of the script,    *)
(* top to bottom.                                                          *)

Init ==
    /\ selected_location = None
    /\ last_clicked = None
    /\ lookup = None
    /\ run = [kind |-> "first", predicted |-> FALSE]
    /\ label_encoders \in EncoderArtifacts
    /\ query = None
    /\ data_dict = EmptyDict
    /\ encoded_features = EmptyDict
    /\ df = NoFrame
    /\ X = <<>>
    /\ prediction = None
    /\ raised = FALSE
    /\ pc = "main"

\* a run that does not submit the form
RunWithoutSubmit(kind, clicked, readable) ==
    \E h \in {HandleClick(clicked, selected_location, readable)} :
        /\ last_clicked' = clicked
        /\ lookup' = h.lookup
        /\ selected_location' = h.selected
        /\ run' = [kind |-> kind, predicted |-> FALSE]
        /\ UNCHANGED <<label_encoders, query, data_dict, encoded_features, df,
                       X, prediction, raised, pc>>

\* the user clicks on the map
MapClick ==
    \E c \in Clicks, readable \in BOOLEAN :
        RunWithoutSubmit("click", Some(c), readable)

\* the script reruns for another reason (a widget outside the form)
Rerun ==
    \E readable \in BOOLEAN :
        RunWithoutSubmit("rerun", last_clicked, readable)

\* service.create_df(date=date, hour=hour, latitude=loc['lat'], ...)
FormQuery(form, loc) ==
    Query(form.date, form.hour, loc.lat, loc.lon, form.place, form.age,
          form.race, form.gender, loc.precinct, loc.borough)

\* the user presses the form's submit button; the form is on the page only
\* when the previous run found a selected location
Submit ==
    /\ selected_location # None
    /\ \E form \in Forms, readable \in BOOLEAN :
        \E h \in {HandleClick(last_clicked, selected_location, readable)} :
        \E c \in {create_df(label_encoders, FormQuery(form, h.selected[1]))} :
        \E pred_encoded \in PredCodes(label_encoders) :
        \E p \in {predict(label_encoders, pred_encoded)} :
            /\ lookup' = h.lookup
            /\ selected_location' = h.selected
            /\ run' = [kind |-> "submit", predicted |-> h.selected # None]
            /\ query' = Some(FormQuery(form, h.selected[1]))
            /\ data_dict' = c.data_dict
            /\ encoded_features' = c.encoded_features
            /\ df' = c.df
            /\ X' = c.X
            /\ prediction' = IF c.raised \/ p.raised THEN None
                             ELSE Some([crime_category |-> p.crime_category,
                                        crimes |-> p.crimes])
            /\ raised' = (c.raised \/ p.raised)
            /\ UNCHANGED <<last_clicked, label_encoders, pc>>

Next == MapClick \/ Rerun \/ Submit

Spec == Init /\ [][Next]_vars

----------------------------------------------------------------------------
(* service.py called directly: create_df on any query, then predict        *)

InitService ==
    /\ selected_location = None
    /\ last_clicked = None
    /\ lookup = None
    /\ run = [kind |-> "none", predicted |-> FALSE]
    /\ label_encoders \in EncoderArtifacts
    /\ query \in {Some(q) : q \in Queries}
    /\ data_dict = EmptyDict
    /\ encoded_features = EmptyDict
    /\ df = NoFrame
    /\ X = <<>>
    /\ prediction = None
    /\ raised = FALSE
    /\ pc = "start"

CallCreateDf ==
    /\ pc = "start"
    /\ \E c \in {create_df(label_encoders, query[1])} :
           /\ data_dict' = c.data_dict
           /\ encoded_features' = c.encoded_features
           /\ df' = c.df
           /\ X' = c.X
           /\ raised' = c.raised
    /\ pc' = "encoded"
    /\ UNCHANGED <<selected_location, last_clicked, lookup, run,
                   label_encoders, query, prediction>>

CallPredict ==
    /\ pc = "encoded"
    /\ ~raised
    /\ \E pred_encoded \in PredCodes(label_encoders) :
        \E p \in {predict(label_encoders, pred_encoded)} :
            /\ prediction' = IF p.raised THEN None
                             ELSE Some([crime_category |-> p.crime_category,
                                        crimes |-> p.crimes])
            /\ raised' = p.raised
    /\ pc' = "predicted"
    /\ UNCHANGED <<selected_location, last_clicked, lookup, run,
                   label_encoders, query, data_dict, encoded_features, df, X>>

NextService == CallCreateDf \/ CallPredict

SpecService == InitService /\ [][NextService]_vars

----------------------------------------------------------------------------
(* Properties *)

Range(seq) == {seq[i] : i \in DOMAIN seq}

\* create_df has returned
Encoded == pc \in {"encoded", "predicted"}

ExpectedFields ==
    <<"year", "month", "day", "hour", "Latitude", "Longitude", "ADDR_PCT_CD",
      "JURISDICTION_CODE", "weekday_encoded", "COMPLETED_encoded",
      "CRIME_CLASS_encoded", "BORO_NM_encoded", "PREM_TYP_DESC_encoded",
      "OCCURENCE_encoded", "SUSP_AGE_GROUP_encoded", "SUSP_RACE_encoded",
      "SUSP_SEX_encoded", "VIC_AGE_GROUP_encoded", "VIC_RACE_encoded",
      "VIC_SEX_encoded", "season_encoded", "is_weekend", "is_night",
      "is_rush_hour", "location_crime_density">>

\* the code of label v under the encoder of column col, 0 when it has none
CodeOf(col, v) ==
    IF col \in DOMAIN label_encoders /\ v \in Range(label_encoders[col])
    THEN Cardinality({j \in DOMAIN label_encoders[col] :
                        \E k \in DOMAIN label_encoders[col] :
                            j < k /\ label_encoders[col][k] = v})
    ELSE 0

\* the value of the named field of the row
Field(name) == df.values[CHOOSE i \in DOMAIN df.columns : df.columns[i] = name]

\* C1: for every query, with precinct and borough each present or absent,
\* create_df raises nothing and builds a row of exactly 25 fields in the fixed
\* order; an absent precinct gives the precinct field 0.0 and an absent
\* borough has the label "UNKNOWN" encoded.
C1_RowOf25Fields ==
    Encoded =>
        /\ ~raised
        /\ df.columns = ExpectedFields
        /\ DOMAIN df.values = 1..25
        /\ (query[1].precinct = None => df.values[7] = 0)
        /\ (query[1].precinct # None => df.values[7] = query[1].precinct[1])
        /\ (query[1].borough = None =>
                /\ data_dict.BORO_NM = "UNKNOWN"
                /\ df.values[12] = CodeOf("BORO_NM", "UNKNOWN"))

C1_Witness ==
    /\ pc = "encoded"
    /\ query[1].precinct = None
    /\ query[1].borough = None
    /\ Len(df.values) = 25
    /\ df.values[12] = 5

\* the positions of the row by where create_df took the value from
EncodedPositions ==
    {i \in DOMAIN df.values : df.columns[i] \in DOMAIN encoded_features}

CopiedPositions ==
    {i \in DOMAIN df.values : df.columns[i] \in DOMAIN data_dict}

\* the fields create_df computes as "1 if <condition> else 0"
FlagFields == {"is_weekend", "is_night", "is_rush_hour"}

FlagPositions == {i \in CopiedPositions : df.columns[i] \in FlagFields}

RawPositions == CopiedPositions \ FlagPositions

\* C3 as stated: all 14 columns of categorical_cols are encoded, and the row
\* is 9 raw numeric fields, 14 encoded fields and 2 boolean fields.
C3_FourteenEncoded ==
    Encoded =>
        /\ \A col \in Range(categorical_cols) :
                (col \o "_encoded") \in DOMAIN encoded_features
        /\ Cardinality(RawPositions) = 9
        /\ Cardinality(EncodedPositions) = 14
        /\ Cardinality(FlagPositions) = 2

EncodedFields ==
    {"weekday_encoded", "COMPLETED_encoded", "CRIME_CLASS_encoded",
     "BORO_NM_encoded", "PREM_TYP_DESC_encoded", "OCCURENCE_encoded",
     "SUSP_AGE_GROUP_encoded", "SUSP_RACE_encoded", "SUSP_SEX_encoded",
     "VIC_AGE_GROUP_encoded", "VIC_RACE_encoded", "VIC_SEX_encoded",
     "season_encoded"}

\* C3, amended: create_df encodes 13 of the 14 columns of categorical_cols,
\* all but JURIS_DESC, which is no key of data_dict; the row of 25 fields is
\* 9 raw numeric fields, 13 encoded fields and 3 boolean fields, and no field
\* is filled with the default.
C3_ThirteenEncoded ==
    Encoded =>
        /\ DOMAIN encoded_features = EncodedFields
        /\ "JURIS_DESC" \in Range(categorical_cols)
        /\ "JURIS_DESC" \notin DOMAIN data_dict
        /\ Cardinality(RawPositions) = 9
        /\ Cardinality(EncodedPositions) = 13
        /\ Cardinality(FlagPositions) = 3
        /\ EncodedPositions \cup CopiedPositions = 1..25
        /\ \A i \in FlagPositions : df.values[i] \in {0, 1}

C3_Witness ==
    /\ pc = "encoded"
    /\ "JURIS_DESC_encoded" \notin DOMAIN encoded_features
    /\ Cardinality(DOMAIN encoded_features) = 13
    /\ Cardinality(EncodedPositions) = 13

\* the columns create_df encodes
EncodedColumns ==
    {"weekday", "COMPLETED", "CRIME_CLASS", "BORO_NM", "PREM_TYP_DESC",
     "OCCURENCE", "SUSP_AGE_GROUP", "SUSP_RACE", "SUSP_SEX", "VIC_AGE_GROUP",
     "VIC_RACE", "VIC_SEX", "season"}

Unseen(col) ==
    \/ col \notin DOMAIN label_encoders
    \/ data_dict[col] \notin Range(label_encoders[col])

\* C4: every encoded column whose value is not in its label table is encoded
\* as 0, without an error; a value in the table is encoded as the table's
\* integer for it.
C4_UnseenIsZero ==
    Encoded =>
        /\ ~raised
        /\ \A col \in EncodedColumns :
            /\ Unseen(col) => encoded_features[col \o "_encoded"] = 0
            /\ ~Unseen(col) =>
                  label_encoders[col][encoded_features[col \o "_encoded"] + 1]
                    = data_dict[col]
            /\ Field(col \o "_encoded") = encoded_features[col \o "_encoded"]

C4_Witness ==
    /\ pc = "encoded"
    /\ data_dict.VIC_RACE = "MARTIAN"
    /\ Unseen("VIC_RACE")
    /\ encoded_features.VIC_RACE_encoded = 0
    /\ ~Unseen("VIC_SEX")
    /\ encoded_features.VIC_SEX_encoded = 2

NightHours == {0, 1, 2, 3, 4, 5, 6, 20, 21, 22, 23}

\* C5: for every hour 0..23 is_night is 1 exactly when the hour is >= 20 or
\* <= 6; hours 6, 7, 19, 20 give 1, 0, 0, 1.
C5_IsNight ==
    (Encoded /\ query[1].hour \in 0..23) =>
        /\ data_dict.is_night = 1 <=> query[1].hour \in NightHours
        /\ data_dict.is_night = 0 <=> query[1].hour \notin NightHours
        /\ Field("is_night") = data_dict.is_night
        /\ query[1].hour = 6 => data_dict.is_night = 1
        /\ query[1].hour = 7 => data_dict.is_night = 0
        /\ query[1].hour = 19 => data_dict.is_night = 0
        /\ query[1].hour = 20 => data_dict.is_night = 1

C5_Witness ==
    /\ pc = "encoded"
    /\ query[1].hour = 20
    /\ Field("is_night") = 1

AgeGroups == {"<18", "18-24", "25-44", "45-64", "65+"}

\* C6: every age gets exactly one victim age group: <18 below 18, 18-24,
\* 25-44, 45-64 by their inclusive limits, 65+ from 65 on; ages 0, 17, 18,
\* 24, 25, 44, 45, 64, 65, 120 get <18, <18, 18-24, 18-24, 25-44, 25-44,
\* 45-64, 45-64, 65+, 65+.
C6_AgeGroup ==
    Encoded =>
        LET age == query[1].age
            group == data_dict.VIC_AGE_GROUP
        IN  /\ group \in AgeGroups
            /\ group = "<18" <=> age \in 0..17
            /\ group = "18-24" <=> age \in 18..24
            /\ group = "25-44" <=> age \in 25..44
            /\ group = "45-64" <=> age \in 45..64
            /\ group = "65+" <=> age >= 65
            /\ age \in {0, 17} => group = "<18"
            /\ age \in {18, 24} => group = "18-24"
            /\ age \in {25, 44} => group = "25-44"
            /\ age \in {45, 64} => group = "45-64"
            /\ age \in {65, 120} => group = "65+"

C6_Witness ==
    /\ pc = "encoded"
    /\ query[1].age = 18
    /\ data_dict.VIC_AGE_GROUP = "18-24"

Seasons == {"Winter", "Spring", "Summer", "Fall"}

\* C7: every month gets exactly one season: Winter for 12, 1, 2, Spring for
\* 3, 4, 5, Summer for 6, 7, 8, Fall for 9, 10, 11; each season has exactly
\* three months.
C7_Season ==
    Encoded =>
        LET month == query[1].date.month
            s == data_dict.season
        IN  /\ s \in Seasons
            /\ s = "Winter" <=> month \in {12, 1, 2}
            /\ s = "Spring" <=> month \in {3, 4, 5}
            /\ s = "Summer" <=> month \in {6, 7, 8}
            /\ s = "Fall" <=> month \in {9, 10, 11}
            /\ \A t \in Seasons :
                   Cardinality({m \in 1..12 : season(m) = t}) = 3

C7_Witness ==
    /\ pc = "encoded"
    /\ query[1].date.month = 12
    /\ data_dict.season = "Winter"

\* C8: the place type decides premise and occurrence: "In park" gives
\* PARK/PLAYGROUND and INSIDE, "In public housing" gives RESIDENCE - PUBLIC
\* HOUSING and INSIDE, "In station" gives TRANSIT - NYC SUBWAY and INSIDE,
\* every other value gives STREET and FRONT OF.
C8_PlaceMapping ==
    Encoded =>
        LET place == query[1].place
            got == <<data_dict.PREM_TYP_DESC, data_dict.OCCURENCE>>
        IN  /\ place = "In park" => got = <<"PARK/PLAYGROUND", "INSIDE">>
            /\ place = "In public housing" =>
                   got = <<"RESIDENCE - PUBLIC HOUSING", "INSIDE">>
            /\ place = "In station" =>
                   got = <<"TRANSIT - NYC SUBWAY", "INSIDE">>
            /\ place \notin {"In park", "In public housing", "In station"} =>
                   got = <<"STREET", "FRONT OF">>

C8_Witness ==
    /\ pc = "encoded"
    /\ query[1].place = "At home"
    /\ data_dict.PREM_TYP_DESC = "STREET"
    /\ data_dict.OCCURENCE = "FRONT OF"

KnownCategories == {"DRUGS/ALCOHOL", "PROPERTY", "PERSONAL", "SEXUAL"}

\* C9: predict returns, for a decoded category among DRUGS/ALCOHOL, PROPERTY,
\* PERSONAL, SEXUAL, that category's list of offences, and for every other
\* category the list with the single entry "UNKNOWN CRIME TYPE"; it does not
\* raise.
C9_CrimeList ==
    pc = "predicted" =>
        /\ ~raised
        /\ prediction # None
        /\ LET c == prediction[1].crime_category
               l == prediction[1].crimes
           IN  /\ c \in KnownCategories => l = crime_details[c]
               /\ c = "DRUGS/ALCOHOL" => Len(l) = 5 /\ l[1] = "DANGEROUS DRUGS"
               /\ c = "PROPERTY" => Len(l) = 10 /\ l[1] = "BURGLARY"
               /\ c = "PERSONAL" =>
                      Len(l) = 6 /\ l[1] = "ASSAULT 3 & RELATED OFFENSES"
               /\ c = "SEXUAL" => Len(l) = 5 /\ l[1] = "SEX CRIMES"
               /\ c \notin KnownCategories => l = <<"UNKNOWN CRIME TYPE">>

C9_Witness ==
    /\ pc = "predicted"
    /\ prediction # None
    /\ prediction[1].crime_category = "OTHER"
    /\ prediction[1].crimes = <<"UNKNOWN CRIME TYPE">>

\* the lookup of the last run did not find both a precinct and a borough
LookupFailed ==
    /\ lookup # None
    /\ (lookup[1].precinct = None \/ lookup[1].borough = None)

\* C2: once the click handler's lookup has failed, create_df and predict do
\* not run until a later click resolves both precinct and borough: no run
\* whose lookup failed goes on to predict.
C2_NoPredictionAfterFailedLookup == ~(LookupFailed /\ run.predicted)

\* the run wrote the selected location
Written == selected_location' # selected_location

\* C10: the stored selected location is empty or holds a precinct and a
\* borough, both found, and every run that writes it stores the precinct and
\* the borough of that run's lookup, both found, with the latitude and the
\* longitude of the click looked up; a lookup that finds only one of them, or
\* neither, writes nothing.
C10_SelectedLocation ==
    /\ [](selected_location # None =>
            /\ selected_location[1].precinct # None
            /\ selected_location[1].borough # None)
    /\ [][Written =>
            /\ lookup' # None
            /\ lookup'[1].precinct # None
            /\ lookup'[1].borough # None
            /\ last_clicked' # None
            /\ selected_location' =
                  Some([lat |-> last_clicked'[1].lat,
                        lon |-> last_clicked'[1].lng,
                        precinct |-> lookup'[1].precinct,
                        borough |-> lookup'[1].borough])]_vars

\* a lookup that found only the borough, after a click that had resolved both
C10_Witness ==
    /\ selected_location # None
    /\ selected_location[1].borough = Some("Bronx")
    /\ lookup # None
    /\ lookup[1].precinct = None
    /\ lookup[1].borough = Some("Queens")

\* C11: create_df replaces every hour >= 24 by 0: the row's hour field is 0
\* and the flags are those of hour 0, is_night 1 and is_rush_hour 0; every
\* hour in 0..23 is kept unchanged.
C11_HourNormalised ==
    Encoded =>
        /\ query[1].hour >= 24 =>
              /\ data_dict.hour = 0
              /\ Field("hour") = 0
              /\ Field("is_night") = 1
              /\ Field("is_rush_hour") = 0
        /\ query[1].hour \in 0..23 =>
              /\ data_dict.hour = query[1].hour
              /\ Field("hour") = query[1].hour

C11_Witness ==
    /\ pc = "encoded"
    /\ query[1].hour = 24
    /\ Field("hour") = 0
    /\ Field("is_night") = 1
    /\ Field("is_rush_hour") = 0

====
